---- MODULE Spec2Model ----
(***************************************************************************)
(* Buffer pool manager of minirel (buf.C): frame table, page directory,    *)
(* clock replacer and the public operations readPage (pinPage), unPinPage, *)
(* allocPage, disposePage, flushFile and the destructor, over an external *)
(* File.                                                                   *)
(***************************************************************************)
EXTENDS Integers, Sequences, FiniteSets, TLC

\* ------------------------------------------------------------------ bounds
NumBufs == 3                       \* bufs, the constructor's argument
MaxPage == 2                       \* page numbers a File hands out: 1..MaxPage
NumFiles == 2                      \* open files the client uses

Frames == 0 .. (NumBufs - 1)
Pages == 1 .. MaxPage
Files == 1 .. NumFiles
NoFile == 0                        \* the NULL File pointer

\* ------------------------------------------------------------------ statuses
OK == "OK"
UNIXERR == "UNIXERR"
BADPAGENO == "BADPAGENO"
HASHNOTFOUND == "HASHNOTFOUND"
HASHTBLERROR == "HASHTBLERROR"
BUFFEREXCEEDED == "BUFFEREXCEEDED"
PAGEPINNED == "PAGEPINNED"
BADBUFFER == "BADBUFFER"
CRASH == "CRASH"                   \* the process died on a NULL File pointer

VARIABLES bufTable, bufPool, hashTable, clockHand, disk, alive, last

vars == <<bufTable, bufPool, hashTable, clockHand, disk, alive, last>>

\* The pool and its File collaborator as one value the handlers thread through;
\* calls is the log of File calls the running operation has issued.
Cur ==
  [bufTable |-> bufTable, bufPool |-> bufPool, hashTable |-> hashTable,
   clockHand |-> clockHand, disk |-> disk, alive |-> alive, calls |-> <<>>]

\* Inputs of one operation: which kind of File call fails (every handler stops
\* at the first File failure, so one failing kind covers every combination), and
\* what a call through a NULL File pointer does in this build.
IOs ==
  [fail : {"none", "readPage", "writePage", "allocatePage", "disposePage"},
   null : {CRASH, OK}]

\* The inputs a handler can observe: the File calls it can issue, and the NULL
\* outcome only where it calls through a descriptor's File pointer.
IOsOf(kinds, nulls) == {io \in IOs : io.fail \in kinds \cup {"none"} /\ io.null \in nulls}

\* ------------------------------------------------------------------ BufDesc
\* The constructor without its memset: the descriptor's File pointer holds
\* whatever was in the allocation, here the address of an open File.
InitDesc_NoMemset(i) ==
  [frameNo |-> i, file |-> 1, pageNo |-> 0, pinCnt |-> 0,
   dirty |-> FALSE, valid |-> FALSE, refbit |-> FALSE]

\* memset(bufTable, 0, ...) followed by frameNo = i, valid = false
InitDesc(i) ==
  [frameNo |-> i, file |-> NoFile, pageNo |-> 0, pinCnt |-> 0,
   dirty |-> FALSE, valid |-> FALSE, refbit |-> FALSE]

DescSet(d, file, pageNo) ==
  [d EXCEPT !.file = file, !.pageNo = pageNo, !.pinCnt = 1,
            !.dirty = FALSE, !.valid = TRUE, !.refbit = TRUE]

DescClear(d) ==
  [d EXCEPT !.file = NoFile, !.pageNo = -1, !.pinCnt = 0,
            !.dirty = FALSE, !.valid = FALSE, !.refbit = FALSE]

AdvanceClock(hand) == (hand + 1) % NumBufs

\* ------------------------------------------------------------------ BufHashTbl
HashLookup(ht, file, pageNo, frameNo) ==
  IF <<file, pageNo>> \in DOMAIN ht
  THEN [st |-> OK, frame |-> ht[<<file, pageNo>>]]
  ELSE [st |-> HASHNOTFOUND, frame |-> frameNo]

HashInsert(ht, file, pageNo, frameNo) ==
  IF <<file, pageNo>> \in DOMAIN ht
  THEN [st |-> HASHTBLERROR, ht |-> ht]
  ELSE [st |-> OK, ht |-> (<<file, pageNo>> :> frameNo) @@ ht]

HashRemove(ht, file, pageNo) ==
  [k \in (DOMAIN ht) \ {<<file, pageNo>>} |-> ht[k]]

\* ------------------------------------------------------------------ File
Logged(s, kind, file, pageNo, st) ==
  [s EXCEPT !.calls = Append(@, [kind |-> kind, file |-> file, pageNo |-> pageNo, st |-> st])]

\* A member call through a NULL File pointer: undefined behaviour.
NullCall(s, kind, pageNo, io) ==
  IF io.null = CRASH
  THEN [st |-> CRASH, s |-> [Logged(s, kind, NoFile, pageNo, CRASH) EXCEPT !.alive = FALSE]]
  ELSE [st |-> OK, s |-> Logged(s, kind, NoFile, pageNo, OK)]

FileReadPage(s, file, pageNo, frameNo, io) ==
  IF file = NoFile THEN NullCall(s, "readPage", pageNo, io)
  ELSE IF io.fail = "readPage" THEN [st |-> UNIXERR, s |-> Logged(s, "readPage", file, pageNo, UNIXERR)]
  ELSE IF pageNo < 1 THEN [st |-> BADPAGENO, s |-> Logged(s, "readPage", file, pageNo, BADPAGENO)]
  ELSE [st |-> OK,
        s |-> [Logged(s, "readPage", file, pageNo, OK)
                 EXCEPT !.bufPool[frameNo] = s.disk[file].content[pageNo]]]

FileWritePage(s, file, pageNo, frameNo, io) ==
  IF file = NoFile THEN NullCall(s, "writePage", pageNo, io)
  ELSE IF io.fail = "writePage" THEN [st |-> UNIXERR, s |-> Logged(s, "writePage", file, pageNo, UNIXERR)]
  ELSE IF pageNo < 1 THEN [st |-> BADPAGENO, s |-> Logged(s, "writePage", file, pageNo, BADPAGENO)]
  ELSE [st |-> OK,
        s |-> [Logged(s, "writePage", file, pageNo, OK)
                 EXCEPT !.disk[file].content[pageNo] = s.bufPool[frameNo]]]

FreePages(s, file) == Pages \ s.disk[file].alloc

MinOf(S) == CHOOSE x \in S : \A y \in S : x <= y

FileAllocatePage(s, file, io) ==
  IF file = NoFile
  THEN LET n == NullCall(s, "allocatePage", 0, io)
       IN [st |-> n.st, pageNo |-> 0, s |-> n.s]
  ELSE IF io.fail = "allocatePage" \/ FreePages(s, file) = {}
  THEN [st |-> UNIXERR, pageNo |-> 0, s |-> Logged(s, "allocatePage", file, 0, UNIXERR)]
  ELSE LET p == MinOf(FreePages(s, file)) IN
       [st |-> OK, pageNo |-> p,
        s |-> [Logged(s, "allocatePage", file, p, OK)
                 EXCEPT !.disk[file].alloc = @ \cup {p},
                        !.disk[file].content[p] = 0]]

FileDisposePage(s, file, pageNo, io) ==
  IF file = NoFile THEN NullCall(s, "disposePage", pageNo, io)
  ELSE IF io.fail = "disposePage" THEN [st |-> UNIXERR, s |-> Logged(s, "disposePage", file, pageNo, UNIXERR)]
  ELSE IF pageNo < 1 THEN [st |-> BADPAGENO, s |-> Logged(s, "disposePage", file, pageNo, BADPAGENO)]
  ELSE [st |-> OK,
        s |-> [Logged(s, "disposePage", file, pageNo, OK)
                 EXCEPT !.disk[file].alloc = @ \ {pageNo}]]

\* ------------------------------------------------------------------ BufMgr
\* disposePage returning early when the page is not buffered: the lookup's
\* status is returned and the File is never asked to deallocate the page.
DisposePageOp_StopsOnMiss(s, file, pageNo, io) ==
  LET l == HashLookup(s.hashTable, file, pageNo, 0) IN
  IF l.st # OK THEN [st |-> l.st, s |-> s]
  ELSE FileDisposePage(
         [s EXCEPT !.bufTable[l.frame] = DescClear(@),
                   !.hashTable = HashRemove(@, file, pageNo)],
         file, pageNo, io)

\* BufMgr::disposePage
DisposePageOp(s, file, pageNo, io) ==
  LET l == HashLookup(s.hashTable, file, pageNo, 0)
      s1 == IF l.st = OK
            THEN [s EXCEPT !.bufTable[l.frame] = DescClear(@)]
            ELSE s
      s2 == [s1 EXCEPT !.hashTable = HashRemove(@, file, pageNo)]
  IN FileDisposePage(s2, file, pageNo, io)

\* BufMgr::allocBuf, lines 93-100: the frame under the clock hand is taken
TakeFrame(s, frame, io) ==
  LET desc == s.bufTable[s.clockHand]
      w == IF desc.dirty
           THEN FileWritePage(s, desc.file, desc.pageNo, s.clockHand, io)
           ELSE [st |-> OK, s |-> s]
      d == IF w.st = OK
           THEN DisposePageOp(w.s, desc.file, desc.pageNo, io)
           ELSE w
  IN [st |-> d.st, frame |-> IF d.st = OK THEN desc.frameNo ELSE frame, s |-> d.s]

\* The scan with its test moved behind the body (do ... while): the frame under
\* the hand is examined before the hand is compared with its starting point.
RECURSIVE ScanClock_BodyFirst(_, _, _, _, _)
ScanClock_BodyFirst(s, i, initialClockHand, frame, io) ==
  IF i >= 2 THEN [st |-> BUFFEREXCEEDED, frame |-> frame, s |-> s]
  ELSE LET desc == s.bufTable[s.clockHand]
           passed == IF desc.valid /\ desc.refbit
                     THEN [s EXCEPT !.bufTable[s.clockHand].refbit = FALSE,
                                    !.clockHand = AdvanceClock(@)]
                     ELSE [s EXCEPT !.clockHand = AdvanceClock(@)]
       IN IF desc.valid /\ (desc.refbit \/ desc.pinCnt # 0)
          THEN ScanClock_BodyFirst(passed,
                                   IF passed.clockHand = initialClockHand THEN i + 1 ELSE i,
                                   initialClockHand, frame, io)
          ELSE TakeFrame(s, frame, io)

\* BufMgr::allocBuf, lines 77-105: for (i < 2) for (; clockHand != initial; advanceClock())
RECURSIVE ScanClock(_, _, _, _, _)
ScanClock(s, i, initialClockHand, frame, io) ==
  IF i >= 2 THEN [st |-> BUFFEREXCEEDED, frame |-> frame, s |-> s]
  ELSE IF s.clockHand = initialClockHand
  THEN ScanClock(s, i + 1, initialClockHand, frame, io)
  ELSE LET desc == s.bufTable[s.clockHand] IN
       IF desc.valid /\ desc.refbit
       THEN ScanClock([s EXCEPT !.bufTable[s.clockHand].refbit = FALSE,
                                !.clockHand = AdvanceClock(@)],
                      i, initialClockHand, frame, io)
       ELSE IF desc.valid /\ desc.pinCnt # 0
       THEN ScanClock([s EXCEPT !.clockHand = AdvanceClock(@)],
                      i, initialClockHand, frame, io)
       ELSE TakeFrame(s, frame, io)

\* BufMgr::allocBuf
AllocBuf(s, frame, io) ==
  LET s1 == [s EXCEPT !.clockHand = AdvanceClock(@)]
  IN ScanClock(s1, 0, s1.clockHand, frame, io)

\* readPage with the guard of line 130 dropped: the descriptor is Set even when
\* no frame was obtained or the read or the insert failed.
ReadPage_SetUnguarded(s, file, pageNo, io) ==
  LET l == HashLookup(s.hashTable, file, pageNo, 0) IN
  IF l.st = HASHNOTFOUND
  THEN LET a == AllocBuf(s, l.frame, io)
           r == IF a.st = OK
                THEN FileReadPage(a.s, file, pageNo, a.frame, io)
                ELSE [st |-> a.st, s |-> a.s]
           h == IF r.st = OK
                THEN HashInsert(r.s.hashTable, file, pageNo, a.frame)
                ELSE [st |-> r.st, ht |-> r.s.hashTable]
       IN [st |-> h.st,
           s |-> [r.s EXCEPT !.hashTable = h.ht,
                             !.bufTable[a.frame] = DescSet(@, file, pageNo)]]
  ELSE [st |-> OK,
        s |-> [s EXCEPT !.bufTable[l.frame].refbit = TRUE,
                        !.bufTable[l.frame].pinCnt = @ + 1]]

\* BufMgr::readPage
ReadPage(s, file, pageNo, io) ==
  LET l == HashLookup(s.hashTable, file, pageNo, 0) IN
  IF l.st = HASHNOTFOUND
  THEN LET a == AllocBuf(s, l.frame, io)
           r == IF a.st = OK
                THEN FileReadPage(a.s, file, pageNo, a.frame, io)
                ELSE [st |-> a.st, s |-> a.s]
           h == IF r.st = OK
                THEN HashInsert(r.s.hashTable, file, pageNo, a.frame)
                ELSE [st |-> r.st, ht |-> r.s.hashTable]
       IN IF h.st = OK
          THEN [st |-> OK,
                s |-> [r.s EXCEPT !.hashTable = h.ht,
                                  !.bufTable[a.frame] = DescSet(@, file, pageNo)]]
          ELSE [st |-> h.st, s |-> r.s]
  ELSE [st |-> OK,
        s |-> [s EXCEPT !.bufTable[l.frame].refbit = TRUE,
                        !.bufTable[l.frame].pinCnt = @ + 1]]

\* unPinPage with the guards of lines 155 and 157 dropped: the frame index left
\* in frameNo is updated whatever the lookup said.
UnPinPageOp_Unguarded(s, file, pageNo, dirty) ==
  LET l == HashLookup(s.hashTable, file, pageNo, 0) IN
  [st |-> l.st,
   s |-> [s EXCEPT !.bufTable[l.frame].pinCnt = @ - 1,
                   !.bufTable[l.frame].dirty = @ \/ dirty]]

\* BufMgr::unPinPage
UnPinPageOp(s, file, pageNo, dirty) ==
  LET l == HashLookup(s.hashTable, file, pageNo, 0) IN
  IF l.st = OK
  THEN [st |-> OK,
        s |-> [s EXCEPT !.bufTable[l.frame].pinCnt = @ - 1,
                        !.bufTable[l.frame].dirty = @ \/ dirty]]
  ELSE [st |-> l.st, s |-> s]

\* BufMgr::allocPage
AllocPageOp(s, file, io) ==
  LET f == FileAllocatePage(s, file, io)
      a == IF f.st = OK
           THEN AllocBuf(f.s, 0, io)
           ELSE [st |-> f.st, frame |-> 0, s |-> f.s]
      h == IF a.st = OK
           THEN HashInsert(a.s.hashTable, file, f.pageNo, a.frame)
           ELSE [st |-> a.st, ht |-> a.s.hashTable]
  IN IF h.st = OK
     THEN [st |-> OK, pageNo |-> f.pageNo,
           s |-> [a.s EXCEPT !.hashTable = h.ht,
                             !.bufTable[a.frame] = DescSet(@, file, f.pageNo)]]
     ELSE [st |-> h.st, pageNo |-> f.pageNo, s |-> a.s]

\* flushFile with the file comparison of line 225 dropped: any invalid frame
\* met by the loop is reported as BADBUFFER.
RECURSIVE FlushFrom_AnyInvalidIsBad(_, _, _, _)
FlushFrom_AnyInvalidIsBad(s, i, file, io) ==
  IF i >= NumBufs THEN [st |-> OK, s |-> s]
  ELSE LET tmpbuf == s.bufTable[i] IN
       IF tmpbuf.valid /\ tmpbuf.file = file
       THEN IF tmpbuf.pinCnt > 0 THEN [st |-> PAGEPINNED, s |-> s]
            ELSE LET w == IF tmpbuf.dirty
                          THEN FileWritePage(s, tmpbuf.file, tmpbuf.pageNo, i, io)
                          ELSE [st |-> OK, s |-> s]
                 IN IF w.st # OK THEN w
                    ELSE FlushFrom_AnyInvalidIsBad(
                           [w.s EXCEPT !.hashTable = HashRemove(@, file, tmpbuf.pageNo),
                                       !.bufTable[i].dirty = FALSE,
                                       !.bufTable[i].file = NoFile,
                                       !.bufTable[i].pageNo = -1,
                                       !.bufTable[i].valid = FALSE],
                           i + 1, file, io)
       ELSE IF ~tmpbuf.valid
       THEN [st |-> BADBUFFER, s |-> s]
       ELSE FlushFrom_AnyInvalidIsBad(s, i + 1, file, io)

\* BufMgr::flushFile
RECURSIVE FlushFrom(_, _, _, _)
FlushFrom(s, i, file, io) ==
  IF i >= NumBufs THEN [st |-> OK, s |-> s]
  ELSE LET tmpbuf == s.bufTable[i] IN
       IF tmpbuf.valid /\ tmpbuf.file = file
       THEN IF tmpbuf.pinCnt > 0 THEN [st |-> PAGEPINNED, s |-> s]
            ELSE LET w == IF tmpbuf.dirty
                          THEN FileWritePage(s, tmpbuf.file, tmpbuf.pageNo, i, io)
                          ELSE [st |-> OK, s |-> s]
                 IN IF w.st # OK THEN w
                    ELSE FlushFrom(
                           [w.s EXCEPT !.hashTable = HashRemove(@, file, tmpbuf.pageNo),
                                       !.bufTable[i].dirty = FALSE,
                                       !.bufTable[i].file = NoFile,
                                       !.bufTable[i].pageNo = -1,
                                       !.bufTable[i].valid = FALSE],
                           i + 1, file, io)
       ELSE IF (~tmpbuf.valid) /\ tmpbuf.file = file
       THEN [st |-> BADBUFFER, s |-> s]
       ELSE FlushFrom(s, i + 1, file, io)

FlushFileOp(s, file, io) == FlushFrom(s, 0, file, io)

\* The destructor's loop with the test of line 47 dropped: every frame is
\* written through its File pointer, valid and dirty or not.
RECURSIVE DestroyFrom_WritesAll(_, _, _, _)
DestroyFrom_WritesAll(s, i, failFrames, null) ==
  IF i >= NumBufs THEN s
  ELSE LET tmpbuf == s.bufTable[i]
           io == [fail |-> IF i \in failFrames THEN "writePage" ELSE "none", null |-> null]
           w == FileWritePage(s, tmpbuf.file, tmpbuf.pageNo, i, io)
       IN IF w.st = CRASH THEN w.s
          ELSE DestroyFrom_WritesAll(w.s, i + 1, failFrames, null)

\* BufMgr::~BufMgr, lines 45-54; failFrames are the frames whose write fails.
\* The status of writePage is dropped and the loop goes on.
RECURSIVE DestroyFrom(_, _, _, _)
DestroyFrom(s, i, failFrames, null) ==
  IF i >= NumBufs THEN s
  ELSE LET tmpbuf == s.bufTable[i]
           io == [fail |-> IF i \in failFrames THEN "writePage" ELSE "none", null |-> null]
       IN IF tmpbuf.valid /\ tmpbuf.dirty
          THEN LET w == FileWritePage(s, tmpbuf.file, tmpbuf.pageNo, i, io)
               IN IF w.st = CRASH THEN w.s
                  ELSE DestroyFrom(w.s, i + 1, failFrames, null)
          ELSE DestroyFrom(s, i + 1, failFrames, null)

\* BufMgr::~BufMgr: after the loop the frame table and the pool are deleted.
DestroyOp(s, failFrames, null) ==
  [st |-> OK, s |-> [DestroyFrom(s, 0, failFrames, null) EXCEPT !.alive = FALSE]]

\* ------------------------------------------------------------------ state machine
Snapshot ==
  [bufTable |-> bufTable, bufPool |-> bufPool, hashTable |-> hashTable,
   clockHand |-> clockHand, disk |-> disk]

\* The state after new BufMgr(NumBufs), with every File empty.
Init ==
  /\ bufTable = [i \in Frames |-> InitDesc(i)]
  /\ bufPool = [i \in Frames |-> 0]
  /\ hashTable = <<>>
  /\ clockHand = NumBufs - 1
  /\ disk = [f \in Files |-> [alloc |-> {}, content |-> [p \in Pages |-> 0]]]
  /\ alive = TRUE
  /\ last = [op |-> "new", file |-> NoFile, pageNo |-> 0, dirty |-> FALSE,
             st |-> OK, calls |-> <<>>, pre |-> Snapshot]

\* The handler has returned: its effects and what the caller observed.
Return(op, file, pageNo, dirty, r) ==
  /\ bufTable' = r.s.bufTable
  /\ bufPool' = r.s.bufPool
  /\ hashTable' = r.s.hashTable
  /\ clockHand' = r.s.clockHand
  /\ disk' = r.s.disk
  /\ alive' = r.s.alive
  /\ last' = [op |-> op, file |-> file, pageNo |-> pageNo, dirty |-> dirty,
              st |-> r.st, calls |-> r.s.calls, pre |-> Snapshot]

PinPage ==
  /\ alive
  /\ \E file \in Files, pageNo \in Pages,
        io \in IOsOf({"readPage", "writePage", "disposePage"}, {CRASH, OK}) :
       Return("pinPage", file, pageNo, FALSE, ReadPage(Cur, file, pageNo, io))

UnPinPage ==
  /\ alive
  /\ \E file \in Files, pageNo \in Pages, dirty \in BOOLEAN :
       Return("unPinPage", file, pageNo, dirty, UnPinPageOp(Cur, file, pageNo, dirty))

AllocPage ==
  /\ alive
  /\ \E file \in Files,
        io \in IOsOf({"allocatePage", "writePage", "disposePage"}, {CRASH, OK}) :
       /\ FreePages(Cur, file) # {}
       /\ LET r == AllocPageOp(Cur, file, io)
          IN Return("allocPage", file, r.pageNo, FALSE, r)

DisposePage ==
  /\ alive
  /\ \E file \in Files, pageNo \in Pages, io \in IOsOf({"disposePage"}, {CRASH}) :
       Return("disposePage", file, pageNo, FALSE, DisposePageOp(Cur, file, pageNo, io))

FlushFile ==
  /\ alive
  /\ \E file \in Files, io \in IOsOf({"writePage"}, {CRASH}) :
       Return("flushFile", file, 0, FALSE, FlushFileOp(Cur, file, io))

Teardown ==
  /\ alive
  /\ \E failFrames \in SUBSET Frames :
       Return("teardown", NoFile, 0, FALSE, DestroyOp(Cur, failFrames, CRASH))

Next == PinPage \/ UnPinPage \/ AllocPage \/ DisposePage \/ FlushFile \/ Teardown

Spec == Init /\ [][Next]_vars

\* ------------------------------------------------------------------ properties
LastKey == <<last.file, last.pageNo>>

AllCallsOK == \A k \in 1 .. Len(last.calls) : last.calls[k].st = OK

\* The frame the directory gives for the page of the last call
LastFrame == hashTable[LastKey]

\* C1: pinPage of a page that is not in the directory returns OK whenever some
\* frame is invalid or valid with pinCnt = 0 and every File call succeeds;
\* afterwards the page has a directory entry and its frame is valid with
\* pinCnt = 1 and refbit set.
C1_PinMissSucceeds ==
  ( /\ last.op = "pinPage"
    /\ LastKey \notin DOMAIN last.pre.hashTable
    /\ \E i \in Frames :
         \/ ~last.pre.bufTable[i].valid
         \/ last.pre.bufTable[i].pinCnt = 0
    /\ AllCallsOK )
  => /\ last.st = OK
     /\ LastKey \in DOMAIN hashTable
     /\ bufTable[LastFrame].valid
     /\ bufTable[LastFrame].pinCnt = 1
     /\ bufTable[LastFrame].refbit

C11_AllocPageSucceeds ==
  ( /\ last.op = "allocPage"
    /\ \E i \in Frames :
         \/ ~last.pre.bufTable[i].valid
         \/ last.pre.bufTable[i].pinCnt = 0
    /\ AllCallsOK )
  => /\ last.st = OK
     /\ \E k \in 1 .. Len(last.calls) :
          /\ last.calls[k].kind = "allocatePage"
          /\ last.calls[k].pageNo = last.pageNo
     /\ LastKey \in DOMAIN hashTable
     /\ bufTable[LastFrame].valid
     /\ bufTable[LastFrame].pinCnt = 1
     /\ ~bufTable[LastFrame].dirty
     /\ \A k \in 1 .. Len(last.calls) : last.calls[k].kind # "readPage"

\* The frames that held a page of the file of the last call when it was made
PreFramesOf(file) ==
  {i \in Frames : last.pre.bufTable[i].valid /\ last.pre.bufTable[i].file = file}

\* The File calls of the last operation of the given kind for (file, pageNo)
CallsFor(kind, file, pageNo) ==
  {k \in 1 .. Len(last.calls) :
     /\ last.calls[k].kind = kind
     /\ last.calls[k].file = file
     /\ last.calls[k].pageNo = pageNo}

CallsOfKind(kind) == {k \in 1 .. Len(last.calls) : last.calls[k].kind = kind}

CalledAllocBuf ==
  \/ last.op = "pinPage" /\ LastKey \notin DOMAIN last.pre.hashTable
  \/ /\ last.op = "allocPage"
     /\ Len(last.calls) >= 1
     /\ last.calls[1].kind = "allocatePage"
     /\ last.calls[1].st = OK

\* Second-chance selection as the claim words it: from hand, an invalid frame is
\* chosen at once, a referenced frame loses its bit and is passed, a pinned
\* frame is passed, the first unreferenced unpinned frame is chosen; n frames
\* have been visited so far.
RECURSIVE SecondChance(_, _, _)
SecondChance(bt, hand, n) ==
  IF n >= 2 * NumBufs THEN [found |-> FALSE, frame |-> hand, bt |-> bt]
  ELSE IF ~bt[hand].valid THEN [found |-> TRUE, frame |-> hand, bt |-> bt]
  ELSE IF bt[hand].refbit
  THEN SecondChance([bt EXCEPT ![hand].refbit = FALSE], AdvanceClock(hand), n + 1)
  ELSE IF bt[hand].pinCnt > 0
  THEN SecondChance(bt, AdvanceClock(hand), n + 1)
  ELSE [found |-> TRUE, frame |-> hand, bt |-> bt]

\* C17: allocBuf advances the clock hand by one and then applies second-chance
\* selection in cyclic order from there; the frame it returns is the first one
\* that meets the rule, the clock hand is left at that frame, and reference
\* bits are cleared only on the frames passed over before it.
C17_SecondChanceSelection ==
  CalledAllocBuf =>
    LET e == SecondChance(last.pre.bufTable, AdvanceClock(last.pre.clockHand), 0)
    IN e.found =>
         /\ last.st # BUFFEREXCEEDED
         /\ clockHand = e.frame
         /\ \A i \in Frames \ {e.frame} : bufTable[i].refbit = e.bt[i].refbit

C20_InvalidFramesUnowned ==
  /\ \A i \in Frames :
       ~bufTable[i].valid => (bufTable[i].file = NoFile /\ ~bufTable[i].dirty)
  /\ (last.op = "flushFile" /\ last.file \in Files) => last.st # BADBUFFER

\* flushFile has scanned a pool of invalid frames, after other operations had
\* moved the clock hand, and returned.
C20_Witness ==
  /\ last.op = "flushFile"
  /\ last.file \in Files
  /\ clockHand # NumBufs - 1
  /\ \A i \in Frames : ~last.pre.bufTable[i].valid

\* allocBuf never hands out a frame, so no page is ever buffered.
NeverBuffered ==
  /\ hashTable = <<>>
  /\ \A i \in Frames : ~bufTable[i].valid /\ bufTable[i].pinCnt = 0

====
